---- MODULE Spec2Model ----
(***************************************************************************)
(* ms-patients: the write/read-split patient service.                      *)
(*                                                                         *)
(* PatientService (services/patient.service.ts) sequences validation, the  *)
(* canonical write (Prisma/PostgreSQL), the read-projection upsert         *)
(* (Mongoose/Cosmos DB) and the event publication (Azure Service Bus).     *)
(* Every await of the TypeScript code is one step of a command, so that    *)
(* commands of different requests interleave at exactly those points.      *)
(***************************************************************************)
EXTENDS Integers, Sequences, FiniteSets, TLC

(* ---------------------------------------------------------------- bounds *)
NumProcs == 2        \* requests that can be in flight at the same time
MaxCommands == 2     \* commands started in one behaviour
MaxTotal == 250      \* largest result set of a search evaluated on its own

Procs == 1 .. NumProcs
\* id 1 is the patient already stored when the service starts
Ids == 1 .. (MaxCommands + 1)

(* ------------------------------------------------------------ input data *)
\* CPF strings as sequences of characters; digits are 0..9.
CpfA == <<5, 2, 9, 9, 8, 2, 2, 4, 7, 2, 5>>
CpfB == <<1, 1, 1, 4, 4, 4, 7, 7, 7, 3, 5>>
CpfRepeated == <<1, 1, 1, 1, 1, 1, 1, 1, 1, 1, 1>>
NoCpf == << >>       \* undefined / '' (both are falsy in the code)
\* 529.982.247-25, the digits of CpfA with punctuation ('.' as 10, '-' as 11)
CpfAFormatted == <<5, 2, 9, 10, 9, 8, 2, 10, 2, 4, 7, 11, 2, 5>>
Cpfs == {CpfA, CpfB, CpfRepeated, CpfAFormatted}

Undefined == "undefined"
Mrns == {"MR1"}
Rooms == {"R1", "R2"}

\* Dates are years relative to the current year; an optional date is << >> or <<y>>.
Now == 0
NoDate == << >>
PastBirth == <<-30>>
FutureDate == <<1>>
PastDate == <<-1>>
AncientBirth == <<-200>>

Queues == {"patient.created", "patient.updated", "patient.deleted", "patient.validated"}

Truthy(s) == s \notin {"", Undefined}

(* ------------------------------------------------------------- records *)
NoRow == [id |-> 0, cpf |-> NoCpf, medicalRecordNumber |-> "", roomNumber |-> "",
          birthDate |-> NoDate, status |-> "", validationStatus |-> ""]

NoPatient == NoRow

NoDoc == [id |-> 0, cpf |-> NoCpf, medicalRecordNumber |-> "", roomNumber |-> "",
          birthDate |-> NoDate, status |-> "", validationStatus |-> "", version |-> 0]

NoData == [cpf |-> NoCpf, medicalRecordNumber |-> Undefined, roomNumber |-> Undefined,
           birthDate |-> NoDate, admissionDate |-> NoDate, insuranceValidity |-> NoDate,
           status |-> Undefined, page |-> 0, limit |-> 0]

\* no response body yet
NoResult == [returned |-> << >>, page |-> 0, limit |-> 0, total |-> 0,
             totalPages |-> 0, hasNext |-> FALSE, hasPrev |-> FALSE]

toLowerCase(s) ==
  CASE s = "ACTIVE" -> "active"
    [] s = "PENDING" -> "pending"
    [] OTHER -> s

(* ------------------------------------------------------ pure functions *)
IsDigit(c) == c \in 0 .. 9

RECURSIVE WeightedSum(_, _, _)
WeightedSum(digits, n, weight) ==
  IF n = 0 THEN 0
  ELSE digits[n] * (weight - (n - 1)) + WeightedSum(digits, n - 1, weight)

\* a check digit that keeps the remainder 10
CheckDigitRaw(sum) == (sum * 10) % 11

CheckDigit(sum) ==
  LET remainder == (sum * 10) % 11
  IN IF remainder = 10 \/ remainder = 11 THEN 0 ELSE remainder

isValidCpf(cpf) ==
  LET cleanCpf == SelectSeq(cpf, IsDigit)
  IN /\ Len(cleanCpf) = 11
     /\ ~(\A i \in 1 .. 11 : cleanCpf[i] = cleanCpf[1])
     /\ CheckDigit(WeightedSum(cleanCpf, 9, 10)) = cleanCpf[10]
     /\ CheckDigit(WeightedSum(cleanCpf, 10, 11)) = cleanCpf[11]

\* findMany: Math.min(limit, 100)
MaxPageSize == 100

Min(a, b) == IF a < b THEN a ELSE b

\* Math.ceil(a / b) for a >= 0, b > 0
Ceil(a, b) == (a + b - 1) \div b

\* PatientRepository.findMany on the documents that match, in sort order
findMany(sorted, page0, limit0) ==
  LET page == IF page0 = 0 THEN 1 ELSE page0
      limit == IF limit0 = 0 THEN 10 ELSE limit0
      skip == (page - 1) * limit
      maxLimit == Min(limit, MaxPageSize)
      total == Len(sorted)
      totalPages == Ceil(total, limit)
  IN [returned |-> SubSeq(sorted, skip + 1, Min(skip + maxLimit, total)),
      page |-> page, limit |-> limit, total |-> total, totalPages |-> totalPages,
      hasNext |-> page < totalPages, hasPrev |-> page > 1]

mapPrismaToPatient(row) ==
  [id |-> row.id, cpf |-> row.cpf, medicalRecordNumber |-> row.medicalRecordNumber,
   roomNumber |-> row.roomNumber, birthDate |-> row.birthDate,
   status |-> toLowerCase(row.status),
   validationStatus |-> toLowerCase(row.validationStatus)]

mapMongoToPatient(doc) ==
  [id |-> doc.id, cpf |-> doc.cpf, medicalRecordNumber |-> doc.medicalRecordNumber,
   roomNumber |-> doc.roomNumber, birthDate |-> doc.birthDate,
   status |-> doc.status, validationStatus |-> doc.validationStatus]

\* readData without the toLowerCase() conversions
readDataRaw(row, oldVersion) ==
  [id |-> row.id, cpf |-> row.cpf, medicalRecordNumber |-> row.medicalRecordNumber,
   roomNumber |-> row.roomNumber, birthDate |-> row.birthDate,
   status |-> row.status, validationStatus |-> row.validationStatus,
   version |-> oldVersion + 1]

\* readData that sets version to the schema default instead of incrementing it
readDataVersionReset(row, oldVersion) ==
  [id |-> row.id, cpf |-> row.cpf, medicalRecordNumber |-> row.medicalRecordNumber,
   roomNumber |-> row.roomNumber, birthDate |-> row.birthDate,
   status |-> toLowerCase(row.status),
   validationStatus |-> toLowerCase(row.validationStatus),
   version |-> 1]

\* readData without the id of the canonical row: the document gets an id of its own
readDataOwnId(row, oldVersion) ==
  [id |-> 0, cpf |-> row.cpf, medicalRecordNumber |-> row.medicalRecordNumber,
   roomNumber |-> row.roomNumber, birthDate |-> row.birthDate,
   status |-> toLowerCase(row.status),
   validationStatus |-> toLowerCase(row.validationStatus),
   version |-> oldVersion + 1]

\* readData that leaves roomNumber out of the document
readDataDropsRoom(row, oldVersion) ==
  [id |-> row.id, cpf |-> row.cpf, medicalRecordNumber |-> row.medicalRecordNumber,
   roomNumber |-> "", birthDate |-> row.birthDate,
   status |-> toLowerCase(row.status),
   validationStatus |-> toLowerCase(row.validationStatus),
   version |-> oldVersion + 1]

\* readData of syncToReadDatabase plus $inc: {version: 1}
readData(row, oldVersion) ==
  [id |-> row.id, cpf |-> row.cpf, medicalRecordNumber |-> row.medicalRecordNumber,
   roomNumber |-> row.roomNumber, birthDate |-> row.birthDate,
   status |-> toLowerCase(row.status),
   validationStatus |-> toLowerCase(row.validationStatus),
   version |-> oldVersion + 1]

\* 0 when the dates pass, otherwise the status of the AppError thrown.
CreateDateError(data) ==
  IF data.birthDate # NoDate /\ data.birthDate[1] > Now THEN 400
  ELSE IF data.admissionDate # NoDate /\ data.admissionDate[1] > Now THEN 400
  ELSE IF data.insuranceValidity # NoDate /\ data.insuranceValidity[1] < Now THEN 400
  ELSE IF data.birthDate # NoDate
          /\ (Now - data.birthDate[1] < 0 \/ Now - data.birthDate[1] > 150) THEN 400
  ELSE 0

\* validateUpdatePatient without the check of a birthDate in the future
UpdateDateErrorNoBirthCheck(data) ==
  IF data.birthDate # NoDate /\ data.birthDate[1] <= Now
          /\ (Now - data.birthDate[1] < 0 \/ Now - data.birthDate[1] > 150) THEN 400
  ELSE IF data.admissionDate # NoDate /\ data.admissionDate[1] > Now THEN 400
  ELSE IF data.insuranceValidity # NoDate /\ data.insuranceValidity[1] < Now THEN 400
  ELSE 0

UpdateDateError(data) ==
  IF data.birthDate # NoDate /\ data.birthDate[1] > Now THEN 400
  ELSE IF data.birthDate # NoDate
          /\ (Now - data.birthDate[1] < 0 \/ Now - data.birthDate[1] > 150) THEN 400
  ELSE IF data.admissionDate # NoDate /\ data.admissionDate[1] > Now THEN 400
  ELSE IF data.insuranceValidity # NoDate /\ data.insuranceValidity[1] < Now THEN 400
  ELSE 0

(* ------------------------------------------------------------ requests *)
CreateData(cpf, mrn, room, birth, admission, insurance) ==
  [cpf |-> cpf, medicalRecordNumber |-> mrn, roomNumber |-> room,
   birthDate |-> birth, admissionDate |-> admission, insuranceValidity |-> insurance,
   status |-> Undefined, page |-> 0, limit |-> 0]

\* CreatePatientRequest payloads: well-formed ones, one with a malformed CPF,
\* one per date rule of validateCreatePatient and one that carries a status.
CreateRequests ==
  {CreateData(CpfB, Undefined, Undefined, PastBirth, NoDate, NoDate),
   CreateData(CpfB, "MR1", Undefined, PastBirth, NoDate, NoDate),
   CreateData(CpfA, Undefined, Undefined, PastBirth, NoDate, NoDate),
   CreateData(CpfRepeated, Undefined, Undefined, PastBirth, NoDate, NoDate),
   CreateData(CpfRepeated, "MR1", Undefined, PastBirth, NoDate, NoDate),
   CreateData(CpfB, Undefined, Undefined, FutureDate, NoDate, NoDate),
   CreateData(CpfB, Undefined, Undefined, AncientBirth, NoDate, NoDate),
   CreateData(CpfB, Undefined, Undefined, PastBirth, FutureDate, NoDate),
   CreateData(CpfB, Undefined, Undefined, PastBirth, NoDate, PastDate),
   [CreateData(CpfB, "MR1", Undefined, PastBirth, NoDate, NoDate)
      EXCEPT !.status = "INACTIVE"],
   CreateData(CpfAFormatted, "MR1", Undefined, PastBirth, NoDate, NoDate)}

\* UpdatePatientRequest payloads: every field is optional.
UpdateRequests ==
  {CreateData(NoCpf, Undefined, Undefined, NoDate, NoDate, NoDate),
   CreateData(NoCpf, Undefined, "R2", NoDate, NoDate, NoDate),
   CreateData(CpfB, Undefined, Undefined, NoDate, NoDate, NoDate),
   CreateData(CpfRepeated, Undefined, Undefined, NoDate, NoDate, NoDate),
   CreateData(NoCpf, "MR1", Undefined, NoDate, NoDate, NoDate),
   CreateData(NoCpf, Undefined, Undefined, FutureDate, NoDate, NoDate),
   CreateData(NoCpf, Undefined, Undefined, NoDate, FutureDate, NoDate),
   CreateData(NoCpf, Undefined, Undefined, NoDate, NoDate, PastDate),
   CreateData(NoCpf, Undefined, "", NoDate, NoDate, NoDate),
   [CreateData(NoCpf, Undefined, Undefined, NoDate, NoDate, NoDate)
      EXCEPT !.status = "INACTIVE"]}

\* GET /search queries: filters and pagination (page and limit 0 when absent)
SearchData(room, page, limit) ==
  [NoData EXCEPT !.roomNumber = room, !.page = page, !.limit = limit]

SearchRequests ==
  {SearchData(Undefined, 0, 0),
   SearchData(Undefined, 2, 1),
   SearchData("R1", 1, MaxPageSize + 1)}

(* --------------------------------------------------------------- state *)
VARIABLES
  writeStore,   \* PostgreSQL table patient: id -> row (NoRow when absent)
  readStore,    \* collection patients_read: id -> document (NoDoc when absent)
  channel,      \* messages accepted by the Service Bus senders, in order
  isTestMode,   \* EventBusService.isTestMode
  senders,      \* EventBusService.senders (queue names that have a sender)
  listening,    \* app.listen has been called
  boot,         \* PatientService.start: its position and what it has completed
  proc,         \* the requests in flight
  started,      \* number of commands started so far
  nextId,       \* next identity the write store generates
  writeLog,     \* <<id, command number>> in the order the canonical writes commit
  syncLog,      \* <<id, command number>> in the order the upserts are applied
  call          \* the pure function being evaluated on its own, its input and result

vars == <<writeStore, readStore, channel, isTestMode, senders, listening, boot,
          proc, started, nextId, writeLog, syncLog, call>>

IdleProc ==
  [pc |-> "idle", kind |-> "", cmdNo |-> 0, id |-> 0, data |-> NoData,
   existingPatient |-> NoPatient, prismaPatient |-> NoRow, patient |-> NoPatient,
   code |-> 0, trace |-> << >>, after |-> {}, heldBy |-> 0, syncsAtStart |-> 0,
   result |-> NoResult, rowBeforeWrite |-> NoRow]

SeedRow ==
  [id |-> 1, cpf |-> CpfA, medicalRecordNumber |-> "", roomNumber |-> "R1",
   birthDate |-> PastBirth, status |-> "ACTIVE", validationStatus |-> "PENDING"]

NoCall == [fn |-> "", cpf |-> NoCpf, page |-> 0, limit |-> 0, total |-> 0,
           valid |-> FALSE, result |-> NoResult, evaluated |-> FALSE]

\* the process before PatientService.start has run
NotStarted == [pc |-> "connectDatabases", databases |-> FALSE, eventBus |-> FALSE]

InitService ==
  /\ writeStore = [i \in Ids |-> IF i = 1 THEN SeedRow ELSE NoRow]
  /\ readStore = [i \in Ids |-> IF i = 1 THEN readData(SeedRow, 0) ELSE NoDoc]
  /\ channel = << >>
  /\ isTestMode \in BOOLEAN
  /\ senders = {}
  /\ listening = FALSE
  /\ boot = NotStarted
  /\ proc = [p \in Procs |-> IdleProc]
  /\ started = 0
  /\ nextId = 2
  /\ writeLog = << >>
  /\ syncLog = << >>

Init == InitService /\ call = NoCall

(* ------------------------------------------------- read-store queries *)
Docs == {i \in Ids : readStore[i] # NoDoc}

findOne(matches) ==
  IF matches = {} THEN NoPatient
  ELSE mapMongoToPatient(readStore[CHOOSE i \in matches : \A j \in matches : i <= j])

findById(id) == findOne({i \in Docs : readStore[i].id = id})

findByCpf(cpf) == findOne({i \in Docs : readStore[i].cpf = cpf})

\* a lookup by medicalRecordNumber that never finds a document
findByMedicalRecordNone(mrn) == NoPatient

findByMedicalRecord(mrn) ==
  findOne({i \in Docs : readStore[i].medicalRecordNumber = mrn})

\* the documents a search filter selects, newest first (sort createdAt -1)
Matching(filters) ==
  {i \in Docs : Truthy(filters.roomNumber) => readStore[i].roomNumber = filters.roomNumber}

RECURSIVE Descending(_)
Descending(S) ==
  IF S = {} THEN << >>
  ELSE LET top == CHOOSE i \in S : \A j \in S : j <= i
       IN <<top>> \o Descending(S \ {top})

(* ------------------------------------------------------- store rules *)
\* a patient table without unique constraints
NoUniqueViolation(store, id, cpf, mrn) == FALSE

\* Unique constraints of the patient table on cpf and medicalRecordNumber.
UniqueViolation(store, id, cpf, mrn) ==
  \E j \in Ids :
    /\ j # id
    /\ store[j] # NoRow
    /\ \/ store[j].cpf = cpf
       \/ mrn # "" /\ store[j].medicalRecordNumber = mrn

\* Unique indexes of PatientSchema on cpf and medicalRecordNumber.
DuplicateKey(store, doc) ==
  \E j \in Ids :
    /\ j # doc.id
    /\ store[j] # NoDoc
    /\ \/ store[j].cpf = doc.cpf
       \/ store[j].medicalRecordNumber = doc.medicalRecordNumber

\* a create that takes status and validationStatus from the payload
CreateRowTakesStatus(id, data) ==
  [id |-> id, cpf |-> data.cpf,
   medicalRecordNumber |->
     IF Truthy(data.medicalRecordNumber) THEN data.medicalRecordNumber ELSE "",
   roomNumber |-> IF Truthy(data.roomNumber) THEN data.roomNumber ELSE "",
   birthDate |-> data.birthDate,
   status |-> IF Truthy(data.status) THEN data.status ELSE "ACTIVE",
   validationStatus |-> IF Truthy(data.status) THEN data.status ELSE "PENDING"]

\* data of prisma.patient.create
CreateRow(id, data) ==
  [id |-> id, cpf |-> data.cpf,
   medicalRecordNumber |->
     IF Truthy(data.medicalRecordNumber) THEN data.medicalRecordNumber ELSE "",
   roomNumber |-> IF Truthy(data.roomNumber) THEN data.roomNumber ELSE "",
   birthDate |-> data.birthDate,
   status |-> "ACTIVE", validationStatus |-> "PENDING"]

\* an update that replaces the whole record by the payload
UpdateRowReplaces(row, data) ==
  [row EXCEPT
     !.cpf = data.cpf,
     !.medicalRecordNumber =
        IF Truthy(data.medicalRecordNumber) THEN data.medicalRecordNumber ELSE "",
     !.roomNumber = IF Truthy(data.roomNumber) THEN data.roomNumber ELSE "",
     !.birthDate = data.birthDate]

\* data of prisma.patient.update: only the truthy fields of the payload
UpdateRow(row, data) ==
  [row EXCEPT
     !.cpf = IF data.cpf # NoCpf THEN data.cpf ELSE @,
     !.medicalRecordNumber =
        IF Truthy(data.medicalRecordNumber) THEN data.medicalRecordNumber ELSE @,
     !.roomNumber = IF Truthy(data.roomNumber) THEN data.roomNumber ELSE @,
     !.birthDate = IF data.birthDate # NoDate THEN data.birthDate ELSE @]

(* --------------------------------------------------- command helpers *)
Range(seq) == {seq[k] : k \in 1 .. Len(seq)}

\* the id of a row that holds this cpf, 0 when there is none
HolderOf(cpf) ==
  LET holders == {i \in Ids : writeStore[i] # NoRow /\ writeStore[i].cpf = cpf}
  IN IF holders = {} THEN 0 ELSE CHOOSE i \in holders : \A j \in holders : i <= j

Step(p, pc, what) == [proc[p] EXCEPT !.pc = pc, !.trace = Append(@, what)]

\* the catch blocks of PatientService: the command ends with an error status
Fail(p, code, what) ==
  [proc[p] EXCEPT !.pc = "done", !.code = code, !.trace = Append(@, what)]

\* validateCreatePatient without the isValidCpf check
CreateRestNoCpfCheck(data) == CreateDateError(data)

\* validateCreatePatient after its last store lookup
CreateRest(data) ==
  IF ~isValidCpf(data.cpf) THEN 400 ELSE CreateDateError(data)

\* a failed write that is logged and not rethrown
WriteFailedIgnored(p, why) == Step(p, "sync", why)

\* the catch blocks of PatientRepository and PatientService around a failed write:
\* whatever the store threw, the command ends with 500
WriteFailed(p, why) == Fail(p, 500, why)

\* the step that follows a passed validation
AfterValidation(kind) == "write"

\* a repository that returns without awaiting syncToReadDatabase
AfterWriteSkipsSync(kind) == "publish"

\* a write after which the command waits for a lock nobody releases
AfterWriteBlocks(kind) == "locked"

\* the step that follows the canonical write in PatientRepository
AfterWrite(kind) == IF kind = "delete" THEN "publish" ELSE "sync"

\* every event type on the queue of the updates
QueueOfShared(kind) == "patient.updated"

QueueOf(kind) ==
  CASE kind = "create" -> "patient.created"
    [] kind = "update" -> "patient.updated"
    [] kind = "delete" -> "patient.deleted"
    [] OTHER -> "patient.validated"

EventTypeOf(kind) ==
  CASE kind = "create" -> "PatientCreated"
    [] kind = "update" -> "PatientUpdated"
    [] kind = "delete" -> "PatientDeleted"
    [] OTHER -> "PatientValidated"

\* the status PatientController.validatePatient asks for
ValidationRequested == "validated"

SuccessCode(kind) == IF kind = "create" THEN 201 ELSE 200

Others == <<writeStore, readStore, channel, isTestMode, call, senders, listening, boot,
            nextId, writeLog, syncLog>>

(* ------------------------------------------------------------ startup *)
\* a connect that creates the senders whatever the mode
connectAlways(testMode, current) == Queues

\* EventBusService.connect: the senders that exist once it has returned
connect(testMode, current) == IF testMode THEN current ELSE Queues

\* a catch block of PatientService.start that logs the error and goes on to listen
FailedStartListens(b) == [b EXCEPT !.pc = "listen"]

\* the catch block of PatientService.start: process.exit(1)
FailedStart(b) == [b EXCEPT !.pc = "exited"]

\* PatientService.start, first step: connectDatabases unless it is skipped
\* (databases: it has returned, or SKIP_DATABASE_CONNECTION is 'true')
connectDatabases ==
  /\ boot.pc = "connectDatabases"
  /\ \E skip \in BOOLEAN, connected \in BOOLEAN :
       boot' = IF skip \/ connected
               THEN [boot EXCEPT !.pc = "initializeEventBus", !.databases = TRUE]
               ELSE FailedStart(boot)
  /\ UNCHANGED <<writeStore, readStore, channel, isTestMode, call, senders, listening,
                 proc, started, nextId, writeLog, syncLog>>

\* PatientService.start, second step: initializeEventBus when the event bus is enabled
\* (eventBus: connect has returned, or config.eventBus.enabled is false)
initializeEventBus ==
  /\ boot.pc = "initializeEventBus"
  /\ \E enabled \in BOOLEAN, connected \in BOOLEAN :
       IF ~enabled
       THEN /\ boot' = [boot EXCEPT !.pc = "listen", !.eventBus = TRUE]
            /\ UNCHANGED senders
       ELSE IF isTestMode \/ connected
       THEN /\ boot' = [boot EXCEPT !.pc = "listen", !.eventBus = TRUE]
            /\ senders' = connect(isTestMode, senders)
       ELSE /\ boot' = FailedStart(boot)
            /\ UNCHANGED senders
  /\ UNCHANGED <<writeStore, readStore, channel, isTestMode, call, listening,
                 proc, started, nextId, writeLog, syncLog>>

\* PatientService.start, last step: app.listen
listen ==
  /\ boot.pc = "listen"
  /\ listening' = TRUE
  /\ boot' = [boot EXCEPT !.pc = "listening"]
  /\ UNCHANGED <<writeStore, readStore, channel, isTestMode, call, senders,
                 proc, started, nextId, writeLog, syncLog>>

\* PatientService.start
start == connectDatabases \/ initializeEventBus \/ listen

(* ----------------------------------------------------------- commands *)
Begin(p, kind, id, data, pc) ==
  /\ listening
  /\ proc[p].pc = "idle"
  /\ \A q \in 1 .. (p - 1) : proc[q].pc # "idle"   \* request slots are taken in order
  /\ started < MaxCommands
  /\ started' = started + 1
  /\ proc' = [proc EXCEPT ![p] =
       [IdleProc EXCEPT !.pc = pc, !.kind = kind, !.cmdNo = started + 1,
                        !.id = id, !.data = data,
                        !.after = {proc[q].cmdNo : q \in {r \in Procs : proc[r].pc = "done"}},
                        !.heldBy = HolderOf(data.cpf),
                        !.syncsAtStart = Len(syncLog)]]
  /\ UNCHANGED Others

createPatient(p) ==
  \E data \in CreateRequests : Begin(p, "create", 0, data, "findByCpf")

updatePatient(p) ==
  \E id \in Ids, data \in UpdateRequests : Begin(p, "update", id, data, "findById")

deletePatient(p) ==
  \E id \in Ids : Begin(p, "delete", id, NoData, "findById")

validatePatient(p) ==
  \E id \in Ids : Begin(p, "validate", id, NoData, "findById")

\* update/delete/validate: patientRepository.findById and what follows it up
\* to the next store call
FindById(p) ==
  LET me == proc[p]
      found == findById(me.id)
      next ==
        IF found = NoPatient THEN Fail(p, 404, "notFound")
        ELSE IF me.kind # "update"
          THEN [Step(p, AfterValidation(me.kind), "validated")
                  EXCEPT !.existingPatient = found]
        ELSE IF me.data.cpf # NoCpf
          THEN [proc[p] EXCEPT !.pc = "findByCpf", !.existingPatient = found]
        ELSE IF Truthy(me.data.medicalRecordNumber)
          THEN [proc[p] EXCEPT !.pc = "findByMedicalRecord", !.existingPatient = found]
        ELSE IF UpdateDateError(me.data) # 0
          THEN [Fail(p, UpdateDateError(me.data), "invalid")
                  EXCEPT !.existingPatient = found]
        ELSE [Step(p, AfterValidation(me.kind), "validated")
                EXCEPT !.existingPatient = found]
  IN /\ me.pc = "findById"
     /\ proc' = [proc EXCEPT ![p] = next]
     /\ UNCHANGED <<started, Others>>

\* validateCreatePatient / validateUpdatePatient: findByCpf and what follows
FindByCpf(p) ==
  LET me == proc[p]
      found == findByCpf(me.data.cpf)
      next ==
        IF me.kind = "create" THEN
          IF found # NoPatient THEN Fail(p, 409, "conflict")
          ELSE IF Truthy(me.data.medicalRecordNumber)
            THEN [proc[p] EXCEPT !.pc = "findByMedicalRecord"]
          ELSE IF CreateRest(me.data) # 0 THEN Fail(p, CreateRest(me.data), "invalid")
          ELSE Step(p, AfterValidation(me.kind), "validated")
        ELSE
          IF found # NoPatient /\ found.id # me.id THEN Fail(p, 409, "conflict")
          ELSE IF ~isValidCpf(me.data.cpf) THEN Fail(p, 400, "invalid")
          ELSE IF Truthy(me.data.medicalRecordNumber)
            THEN [proc[p] EXCEPT !.pc = "findByMedicalRecord"]
          ELSE IF UpdateDateError(me.data) # 0
            THEN Fail(p, UpdateDateError(me.data), "invalid")
          ELSE Step(p, AfterValidation(me.kind), "validated")
  IN /\ me.pc = "findByCpf"
     /\ proc' = [proc EXCEPT ![p] = next]
     /\ UNCHANGED <<started, Others>>

\* validateCreatePatient / validateUpdatePatient: findByMedicalRecord and the rest
FindByMedicalRecord(p) ==
  LET me == proc[p]
      found == findByMedicalRecord(me.data.medicalRecordNumber)
      next ==
        IF me.kind = "create" THEN
          IF found # NoPatient THEN Fail(p, 409, "conflict")
          ELSE IF CreateRest(me.data) # 0 THEN Fail(p, CreateRest(me.data), "invalid")
          ELSE Step(p, AfterValidation(me.kind), "validated")
        ELSE
          IF found # NoPatient /\ found.id # me.id THEN Fail(p, 409, "conflict")
          ELSE IF UpdateDateError(me.data) # 0
            THEN Fail(p, UpdateDateError(me.data), "invalid")
          ELSE Step(p, AfterValidation(me.kind), "validated")
  IN /\ me.pc = "findByMedicalRecord"
     /\ proc' = [proc EXCEPT ![p] = next]
     /\ UNCHANGED <<started, Others>>

\* the canonical write: prisma.patient.create / update / delete
Written(p, row) ==
  [Step(p, AfterWrite(proc[p].kind), "written") EXCEPT !.prismaPatient = row, !.id = row.id]

create(p) ==
  LET me == proc[p]
      row == CreateRow(nextId, me.data)
  IN /\ me.pc = "write"
     /\ me.kind = "create"
     /\ \E dbOk \in BOOLEAN :
          IF dbOk /\ ~UniqueViolation(writeStore, 0, row.cpf, row.medicalRecordNumber)
          THEN /\ writeStore' = [writeStore EXCEPT ![nextId] = row]
               /\ nextId' = nextId + 1
               /\ writeLog' = Append(writeLog, <<nextId, me.cmdNo>>)
               /\ proc' = [proc EXCEPT ![p] = Written(p, row)]
          ELSE /\ proc' = [proc EXCEPT ![p] =
                    WriteFailed(p, IF dbOk THEN "uniqueViolation" ELSE "writeFailed")]
               /\ UNCHANGED <<writeStore, nextId, writeLog>>
     /\ UNCHANGED <<readStore, channel, isTestMode, call, senders, listening, boot, started, syncLog>>

\* updatePatient passes its payload, validatePatient passes {id} only
update(p) ==
  LET me == proc[p]
      row == UpdateRow(writeStore[me.id], me.data)
  IN /\ me.pc = "write"
     /\ me.kind \in {"update", "validate"}
     /\ \E dbOk \in BOOLEAN :
          IF /\ dbOk
             /\ writeStore[me.id] # NoRow
             /\ ~UniqueViolation(writeStore, me.id, row.cpf, row.medicalRecordNumber)
          THEN /\ writeStore' = [writeStore EXCEPT ![me.id] = row]
               /\ writeLog' = Append(writeLog, <<me.id, me.cmdNo>>)
               /\ proc' = [proc EXCEPT ![p] =
                    [Written(p, row) EXCEPT !.rowBeforeWrite = writeStore[me.id]]]
          ELSE /\ proc' = [proc EXCEPT ![p] =
                    WriteFailed(p, IF ~dbOk THEN "writeFailed"
                                   ELSE IF writeStore[me.id] = NoRow THEN "rowMissing"
                                   ELSE "uniqueViolation")]
               /\ UNCHANGED <<writeStore, writeLog>>
     /\ UNCHANGED <<readStore, channel, isTestMode, call, senders, listening, boot, started,
                    nextId, syncLog>>

\* a delete that also removes the document of the id from the read store
ReadStoreAfterDeleteRemoves(store, id) == [store EXCEPT ![id] = NoDoc]

\* PatientRepository.delete makes no call to the read store
ReadStoreAfterDelete(store, id) == store

\* prisma.patient.delete resolves to the row it removed
delete(p) ==
  LET me == proc[p]
  IN /\ me.pc = "write"
     /\ me.kind = "delete"
     /\ \E dbOk \in BOOLEAN :
          IF dbOk /\ writeStore[me.id] # NoRow
          THEN /\ writeStore' = [writeStore EXCEPT ![me.id] = NoRow]
               /\ readStore' = ReadStoreAfterDelete(readStore, me.id)
               /\ writeLog' = Append(writeLog, <<me.id, me.cmdNo>>)
               /\ proc' = [proc EXCEPT ![p] =
                    [Step(p, AfterWrite(me.kind), "written")
                       EXCEPT !.prismaPatient = writeStore[me.id]]]
          ELSE /\ proc' = [proc EXCEPT ![p] =
                    WriteFailed(p, IF dbOk THEN "rowMissing" ELSE "writeFailed")]
               /\ UNCHANGED <<writeStore, readStore, writeLog>>
     /\ UNCHANGED <<channel, isTestMode, call, senders, listening, boot, started,
                    nextId, syncLog>>

\* an upsert that only inserts: an existing document is left as it is
UpsertInsertOnly(store, row) ==
  IF store[row.id] # NoDoc THEN store
  ELSE [store EXCEPT ![row.id] = readData(row, store[row.id].version)]

\* findOneAndUpdate({id}, {...readData, $inc: {version: 1}}, {upsert: true})
Upsert(store, row) == [store EXCEPT ![row.id] = readData(row, store[row.id].version)]

\* a syncToReadDatabase that rethrows what the upsert threw
AfterSyncRethrows(p, ok) ==
  IF ok THEN [Step(p, "publish", "synced")
                EXCEPT !.patient = mapPrismaToPatient(proc[p].prismaPatient)]
  ELSE Fail(p, 500, "syncFailed")

\* a command that answers success right after a failed upsert, without publishing
AfterSyncReturnsEarly(p, ok) ==
  IF ok THEN [Step(p, "publish", "synced")
                EXCEPT !.patient = mapPrismaToPatient(proc[p].prismaPatient)]
  ELSE [Step(p, "done", "syncFailed") EXCEPT !.code = SuccessCode(proc[p].kind)]

\* what the command does once syncToReadDatabase has returned
AfterSync(p, ok) ==
  [Step(p, "publish", IF ok THEN "synced" ELSE "syncFailed")
     EXCEPT !.patient = mapPrismaToPatient(proc[p].prismaPatient)]

syncToReadDatabase(p) ==
  LET me == proc[p]
      row == me.prismaPatient
  IN /\ me.pc = "sync"
     /\ \E mongoOk \in BOOLEAN :
          IF mongoOk /\ ~DuplicateKey(readStore, readData(row, 0))
          THEN /\ readStore' = Upsert(readStore, row)
               /\ syncLog' = Append(syncLog, <<row.id, me.cmdNo>>)
               /\ proc' = [proc EXCEPT ![p] = AfterSync(p, TRUE)]
          ELSE /\ proc' = [proc EXCEPT ![p] =
                    [AfterSync(p, FALSE) EXCEPT !.trace =
                       IF mongoOk THEN me.trace \o <<"duplicateKey", "syncFailed">> ELSE @]]
               /\ UNCHANGED <<readStore, syncLog>>
     /\ UNCHANGED <<writeStore, channel, isTestMode, call, senders, listening, boot, started,
                    nextId, writeLog>>

\* the envelope built by publishPatientCreated/Updated/Deleted/Validated
Envelope(me) ==
  [queue |-> QueueOf(me.kind), eventType |-> EventTypeOf(me.kind),
   patientId |-> me.id, correlationId |-> me.id, messageId |-> me.id,
   data |-> CASE me.kind = "create" -> me.patient
              [] me.kind = "delete" -> me.existingPatient
              [] OTHER -> NoPatient,
   oldData |-> IF me.kind = "update" THEN me.existingPatient ELSE NoPatient,
   newData |-> IF me.kind = "update" THEN me.patient ELSE NoPatient,
   cmdNo |-> me.cmdNo]

\* a publisher whose failure is logged and not rethrown
AfterPublishSwallowed(p, ok) ==
  [Step(p, "done", IF ok THEN "published" ELSE "publishFailed")
     EXCEPT !.code = SuccessCode(proc[p].kind)]

\* a publisher that tries again after a failed send
AfterPublishRetries(p, ok) ==
  IF ok THEN [Step(p, "done", "published") EXCEPT !.code = SuccessCode(proc[p].kind)]
  ELSE Step(p, "publish", "publishFailed")

\* the response of a command whose publication returned / threw
AfterPublish(p, ok) ==
  IF ok THEN [Step(p, "done", "published") EXCEPT !.code = SuccessCode(proc[p].kind)]
  ELSE Fail(p, 500, "publishFailed")

\* a publisher that makes the sender it lacks
CanSendAnywhere(queue, made) == TRUE

\* EventBusService.publishEvent: the queue has a sender
CanSend(queue, made) == queue \in made

publishEvent(p) ==
  LET me == proc[p]
  IN /\ me.pc = "publish"
     /\ IF isTestMode
        THEN /\ proc' = [proc EXCEPT ![p] = AfterPublish(p, TRUE)]
             /\ UNCHANGED channel
        ELSE \E sendOk \in BOOLEAN :
               IF sendOk /\ CanSend(QueueOf(me.kind), senders)
               THEN /\ channel' = Append(channel, Envelope(me))
                    /\ proc' = [proc EXCEPT ![p] = AfterPublish(p, TRUE)]
               ELSE /\ proc' = [proc EXCEPT ![p] = AfterPublish(p, FALSE)]
                    /\ UNCHANGED channel
     /\ UNCHANGED <<writeStore, readStore, isTestMode, call, senders, listening, boot, started,
                    nextId, writeLog, syncLog>>

(* -------------------------------------------------------------- reads *)
ReadKinds == {"getById", "getByCpf", "getByMedicalRecord", "search"}

getPatientById(p) ==
  \E id \in Ids : Begin(p, "getById", id, NoData, "read")

getPatientByCpf(p) ==
  \E cpf \in {CpfA, CpfB} : Begin(p, "getByCpf", 0, [NoData EXCEPT !.cpf = cpf], "read")

getPatientByMedicalRecord(p) ==
  \E mrn \in Mrns :
    Begin(p, "getByMedicalRecord", 0, [NoData EXCEPT !.medicalRecordNumber = mrn], "read")

searchPatients(p) ==
  \E data \in SearchRequests : Begin(p, "search", 0, data, "read")

\* a lookup that stamps the document it returns
ReadStoreAfterFindTouches(store, found) ==
  IF found = NoPatient THEN store
  ELSE [store EXCEPT ![found.id] = [@ EXCEPT !.version = @ + 1]]

\* PatientReadModel.findOne / find / countDocuments: the collection after the query
ReadStoreAfterFind(store, found) == store

\* getPatientById / getPatientByCpf / getPatientByMedicalRecord of PatientService
findOneAndRespond(p) ==
  LET me == proc[p]
      found == CASE me.kind = "getById" -> findById(me.id)
                 [] me.kind = "getByCpf" -> findByCpf(me.data.cpf)
                 [] OTHER -> findByMedicalRecord(me.data.medicalRecordNumber)
  IN /\ me.pc = "read"
     /\ me.kind \in ReadKinds \ {"search"}
     /\ proc' = [proc EXCEPT ![p] =
          IF found = NoPatient THEN Fail(p, 404, "notFound")
          ELSE [Step(p, "done", "found") EXCEPT !.code = 200, !.id = found.id,
                                                !.patient = found]]
     /\ readStore' = ReadStoreAfterFind(readStore, found)
     /\ UNCHANGED <<writeStore, channel, isTestMode, call, senders, listening, boot, started,
                    nextId, writeLog, syncLog>>

\* searchPatients of PatientService: patientRepository.findMany
findManyAndRespond(p) ==
  LET me == proc[p]
  IN /\ me.pc = "read"
     /\ me.kind = "search"
     /\ proc' = [proc EXCEPT ![p] =
          [Step(p, "done", "found") EXCEPT !.code = 200,
             !.result = findMany(Descending(Matching(me.data)), me.data.page, me.data.limit)]]
     /\ readStore' = ReadStoreAfterFind(readStore, NoPatient)
     /\ UNCHANGED <<writeStore, channel, isTestMode, call, senders, listening, boot, started,
                    nextId, writeLog, syncLog>>

\* the controller sends the response (or the error handler the error)
respond(p) ==
  /\ proc[p].pc = "done"
  /\ proc' = [proc EXCEPT ![p] = IdleProc]
  /\ UNCHANGED <<started, Others>>

Next ==
  \/ start
  \/ \E p \in Procs : createPatient(p)
  \/ \E p \in Procs : updatePatient(p)
  \/ \E p \in Procs : deletePatient(p)
  \/ \E p \in Procs : validatePatient(p)
  \/ \E p \in Procs : FindById(p)
  \/ \E p \in Procs : FindByCpf(p)
  \/ \E p \in Procs : FindByMedicalRecord(p)
  \/ \E p \in Procs : create(p)
  \/ \E p \in Procs : update(p)
  \/ \E p \in Procs : delete(p)
  \/ \E p \in Procs : syncToReadDatabase(p)
  \/ \E p \in Procs : publishEvent(p)
  \/ \E p \in Procs : getPatientById(p)
  \/ \E p \in Procs : getPatientByCpf(p)
  \/ \E p \in Procs : getPatientByMedicalRecord(p)
  \/ \E p \in Procs : searchPatients(p)
  \/ \E p \in Procs : findOneAndRespond(p)
  \/ \E p \in Procs : findManyAndRespond(p)
  \/ \E p \in Procs : respond(p)

Spec == Init /\ [][Next]_vars

\* a request that has been accepted runs on: every store and transport call returns
Advance(p) ==
  \/ FindById(p) \/ FindByCpf(p) \/ FindByMedicalRecord(p)
  \/ create(p) \/ update(p) \/ delete(p)
  \/ syncToReadDatabase(p) \/ publishEvent(p) \/ respond(p)
  \/ findOneAndRespond(p) \/ findManyAndRespond(p)

FairSpec == Spec /\ WF_vars(start) /\ \A p \in Procs : WF_vars(Advance(p))

(* ------------------------------------- pure functions on their own *)
\* eleven-digit strings: a hundred and ten nine-digit bodies, each with every
\* pair of check digits
CpfBodies ==
  {<<a, b, 9, 9, 8, 2, 2, 4, 7>> : a \in 0 .. 9, b \in 0 .. 9}
    \cup {[i \in 1 .. 9 |-> d] : d \in 0 .. 9}

CpfInputs == {body \o <<d1, d2>> : body \in CpfBodies, d1 \in 0 .. 9, d2 \in 0 .. 9}

Calls ==
  {[NoCall EXCEPT !.fn = "isValidCpf", !.cpf = cpf] : cpf \in CpfInputs}
    \cup {[NoCall EXCEPT !.fn = "findMany", !.page = page, !.limit = limit, !.total = total] :
            page \in 0 .. 3,
            limit \in {0, 1, 10, MaxPageSize, MaxPageSize + 1, 2 * MaxPageSize},
            total \in 0 .. MaxTotal}

PureInit == InitService /\ call \in Calls

isValidCpfCall ==
  /\ call.fn = "isValidCpf"
  /\ ~call.evaluated
  /\ call' = [call EXCEPT !.valid = isValidCpf(call.cpf), !.evaluated = TRUE]
  /\ UNCHANGED <<writeStore, readStore, channel, isTestMode, senders, listening, boot,
                 proc, started, nextId, writeLog, syncLog>>

findManyCall ==
  /\ call.fn = "findMany"
  /\ ~call.evaluated
  /\ call' = [call EXCEPT
       !.result = findMany([i \in 1 .. call.total |-> i], call.page, call.limit),
       !.evaluated = TRUE]
  /\ UNCHANGED <<writeStore, readStore, channel, isTestMode, senders, listening, boot,
                 proc, started, nextId, writeLog, syncLog>>

PureNext == isValidCpfCall \/ findManyCall

PureSpec == PureInit /\ [][PureNext]_vars

TypeOK ==
  /\ \A i \in Ids : writeStore[i] = NoRow \/ writeStore[i].id = i
  /\ \A i \in Ids : readStore[i] = NoDoc \/ readStore[i].id = i
  /\ started \in 0 .. MaxCommands

(* ------------------------------------------------------------- claims *)
Has(me, what) == what \in Range(me.trace)

CmdsOf(log) == {e[2] : e \in Range(log)}

PublishedCmds == {m.cmdNo : m \in Range(channel)}

\* the command whose entry for this id is the last one of the log, 0 when none
LastOn(log, id) ==
  LET ks == {k \in 1 .. Len(log) : log[k][1] = id}
  IN IF ks = {} THEN 0 ELSE log[CHOOSE k \in ks : \A j \in ks : j <= k][2]

WriteAttempted(me) ==
  Has(me, "written") \/ Has(me, "writeFailed") \/ Has(me, "uniqueViolation")
    \/ Has(me, "rowMissing")

SyncAttempted(me) == Has(me, "synced") \/ Has(me, "syncFailed")

PublishAttempted(me) == Has(me, "published") \/ Has(me, "publishFailed")

NoSideEffect(me) ==
  /\ ~WriteAttempted(me) /\ ~SyncAttempted(me) /\ ~PublishAttempted(me)
  /\ me.cmdNo \notin CmdsOf(writeLog)
  /\ me.cmdNo \notin CmdsOf(syncLog)
  /\ me.cmdNo \notin PublishedCmds

\* the payload breaks a rule that needs no store to decide
MalformedCreate(data) == ~isValidCpf(data.cpf) \/ CreateDateError(data) # 0

MalformedUpdate(data) ==
  (data.cpf # NoCpf /\ ~isValidCpf(data.cpf)) \/ UpdateDateError(data) # 0

\* C1: a createPatient or updatePatient whose validation fails (malformed CPF, cpf
\* or medicalRecordNumber found on another patient, date out of range) ends with
\* status 400 or 409 and has called neither the write store, nor the projection,
\* nor the publisher; a malformed payload never gets past validation.
C1_ValidationFailureHasNoSideEffect ==
  \A p \in Procs :
    LET me == proc[p] IN
    /\ (me.kind \in {"create", "update"} /\ (Has(me, "invalid") \/ Has(me, "conflict")))
         => /\ me.pc = "done"
            /\ me.code \in {400, 409}
            /\ NoSideEffect(me)
    /\ (me.kind = "create" /\ MalformedCreate(me.data))
         => /\ me.pc \in {"findByCpf", "findByMedicalRecord", "done"}
            /\ NoSideEffect(me)
            /\ me.pc = "done" => me.code \in {400, 409}
    /\ (me.kind = "update" /\ MalformedUpdate(me.data))
         => /\ me.pc \in {"findById", "findByCpf", "findByMedicalRecord", "done"}
            /\ NoSideEffect(me)
            /\ me.pc = "done" => me.code \in {400, 404, 409}

C1_Witness ==
  \E p, q \in Procs :
    /\ proc[p].kind = "create" /\ Has(proc[p], "conflict")
    /\ proc[p].pc = "done" /\ proc[p].code = 409
    /\ proc[q].kind = "update" /\ proc[q].data.cpf = CpfRepeated
    /\ proc[q].pc = "done" /\ proc[q].code = 400

\* C2: when the read-projection upsert of a createPatient or updatePatient fails,
\* the command goes on to publish, its canonical write stays in the write store,
\* and its response is the one the publication alone decides: success:true as soon
\* as the event is published.
C2_SyncFailureIsSwallowed ==
  \A p \in Procs :
    LET me == proc[p] IN
    (me.kind \in {"create", "update"} /\ Has(me, "syncFailed"))
      => /\ me.pc \in {"publish", "done"}
         /\ me.cmdNo \in CmdsOf(writeLog)
         /\ LastOn(writeLog, me.id) = me.cmdNo => writeStore[me.id] = me.prismaPatient
         /\ me.pc = "done" => PublishAttempted(me)
         /\ (me.pc = "done" /\ Has(me, "published")) => me.code = SuccessCode(me.kind)
         /\ (me.pc = "done" /\ me.code # SuccessCode(me.kind)) => Has(me, "publishFailed")

C2_Witness ==
  \E p \in Procs :
    /\ proc[p].kind = "create" /\ Has(proc[p], "syncFailed")
    /\ proc[p].pc = "done" /\ proc[p].code = 201
    /\ writeStore[proc[p].id] = proc[p].prismaPatient
    /\ readStore[proc[p].id] = NoDoc

\* the canonical write of a command is in place unless a later command wrote the id
WriteInPlace(me) ==
  LastOn(writeLog, me.id) = me.cmdNo
    => writeStore[me.id] = (IF me.kind = "delete" THEN NoRow ELSE me.prismaPatient)

\* the projection of a command is in place unless a later upsert replaced it
ProjectionInPlace(me) ==
  (Has(me, "synced") /\ LastOn(syncLog, me.id) = me.cmdNo)
    => mapMongoToPatient(readStore[me.id]) = mapPrismaToPatient(me.prismaPatient)

\* C3: when the publication of a create, update, delete or validate command fails,
\* the command ends with status 500, and the canonical write it made and the
\* projection it made are still in place: nothing after the write undoes it.
C3_PublishFailureKeepsWrite ==
  \A p \in Procs :
    LET me == proc[p] IN
    /\ Has(me, "publishFailed")
         => /\ me.pc = "done" /\ me.code = 500
            /\ me.cmdNo \in CmdsOf(writeLog)
            /\ me.cmdNo \notin PublishedCmds
    /\ Has(me, "written") => WriteInPlace(me) /\ ProjectionInPlace(me)

C3_Witness ==
  \E p, q \in Procs :
    /\ proc[p].kind = "delete" /\ Has(proc[p], "publishFailed")
    /\ writeStore[proc[p].id] = NoRow
    /\ proc[q].kind = "create" /\ Has(proc[q], "publishFailed") /\ Has(proc[q], "synced")
    /\ writeStore[proc[q].id] = proc[q].prismaPatient
    /\ readStore[proc[q].id] # NoDoc

\* C4: when the write-store call of a create, update or delete command fails, the
\* command ends with an error status and attempts neither the projection upsert
\* nor the publication.
C4_WriteFailureStopsCommand ==
  \A p \in Procs :
    LET me == proc[p] IN
    (me.kind \in {"create", "update", "delete"}
       /\ (Has(me, "writeFailed") \/ Has(me, "uniqueViolation") \/ Has(me, "rowMissing")))
      => /\ me.pc = "done" /\ me.code >= 400
         /\ ~SyncAttempted(me) /\ ~PublishAttempted(me)
         /\ me.cmdNo \notin CmdsOf(writeLog)
         /\ me.cmdNo \notin CmdsOf(syncLog)
         /\ me.cmdNo \notin PublishedCmds

C4_Witness ==
  \E p, q \in Procs :
    /\ proc[p].kind = "update" /\ Has(proc[p], "writeFailed") /\ proc[p].pc = "done"
    /\ proc[q].kind = "delete" /\ Has(proc[q], "writeFailed") /\ proc[q].pc = "done"

Before(me, a, b) ==
  \A j \in 1 .. Len(me.trace) :
    me.trace[j] \in b => \E k \in 1 .. (j - 1) : me.trace[k] \in a

\* C5: in every create and update command the write is attempted only after the
\* validation has passed, the projection upsert only after the write has
\* committed, and the publication only after the upsert attempt has returned.
C5_StepOrder ==
  \A p \in Procs :
    LET me == proc[p] IN
    me.kind \in {"create", "update"}
      => /\ Before(me, {"validated"},
                   {"written", "writeFailed", "uniqueViolation", "rowMissing"})
         /\ Before(me, {"written"}, {"synced", "syncFailed"})
         /\ Before(me, {"synced", "syncFailed"}, {"published", "publishFailed"})
         /\ me.pc = "write" => Has(me, "validated")
         /\ me.pc = "sync" => Has(me, "written")
         /\ me.pc = "publish" => SyncAttempted(me)
         /\ me.cmdNo \in CmdsOf(writeLog) => Has(me, "validated")
         /\ me.cmdNo \in CmdsOf(syncLog) => me.cmdNo \in CmdsOf(writeLog)
         /\ me.cmdNo \in PublishedCmds => SyncAttempted(me)

C5_Witness ==
  \E p \in Procs :
    /\ proc[p].kind = "update"
    /\ proc[p].trace = <<"validated", "written", "synced", "published">>
    /\ proc[p].cmdNo \in PublishedCmds

RowsWithCpf(cpf) == {i \in Ids : writeStore[i] # NoRow /\ writeStore[i].cpf = cpf}

\* C6: a createPatient with an otherwise acceptable payload, started after every
\* other command has finished, whose cpf is held by a row of the write store from
\* its start to its end, fails with 409 and leaves exactly one row with that cpf,
\* whatever the read store holds (store outages aside).
C6_DuplicateCpfIsConflict ==
  \A p \in Procs :
    LET me == proc[p] IN
    (/\ me.kind = "create" /\ me.pc = "done"
     /\ ~MalformedCreate(me.data)
     /\ \A q \in Procs \ {p} : proc[q].cmdNo \in me.after
     /\ me.heldBy # 0 /\ writeStore[me.heldBy].cpf = me.data.cpf
     /\ ~Has(me, "writeFailed"))
      => /\ me.code = 409
         /\ Cardinality(RowsWithCpf(me.data.cpf)) = 1

\* C7: the write store never holds two rows with the same cpf, nor two rows with
\* the same non-empty medicalRecordNumber.
C7_UniqueKeys ==
  \A i, j \in Ids :
    (i # j /\ writeStore[i] # NoRow /\ writeStore[j] # NoRow)
      => /\ writeStore[i].cpf # writeStore[j].cpf
         /\ writeStore[i].medicalRecordNumber # ""
              => writeStore[i].medicalRecordNumber # writeStore[j].medicalRecordNumber

Overlap(a, b) == a.cmdNo \notin b.after /\ b.cmdNo \notin a.after

C7_Witness ==
  \E p, q \in Procs :
    /\ p # q /\ Overlap(proc[p], proc[q])
    /\ proc[p].kind = "create" /\ proc[q].kind = "create"
    /\ proc[p].data.cpf = proc[q].data.cpf
    /\ Has(proc[p], "written") /\ Has(proc[q], "uniqueViolation")
    /\ Cardinality({i \in Ids : writeStore[i] # NoRow}) = 2

\* C8: of two overlapping createPatient commands with the same cpf that both pass
\* validation, one commits its write and the other one ends with 409.
C8_RacingCreateIsConflict ==
  \A p, q \in Procs :
    (/\ p # q /\ Overlap(proc[p], proc[q])
     /\ proc[p].kind = "create" /\ proc[q].kind = "create"
     /\ proc[p].data.cpf = proc[q].data.cpf
     /\ Has(proc[p], "validated") /\ Has(proc[q], "validated")
     /\ Has(proc[p], "written")
     /\ proc[q].pc = "done" /\ ~Has(proc[q], "writeFailed"))
      => /\ ~Has(proc[q], "written")
         /\ proc[q].code = 409

PosIn(log, me) == CHOOSE k \in 1 .. Len(log) : log[k] = <<me.id, me.cmdNo>>

\* two finished commands on one id, both projected, a's write committed before b's
CommittedInOrder(a, b) ==
  /\ a.pc = "done" /\ b.pc = "done"
  /\ a.id = b.id /\ a.cmdNo # b.cmdNo
  /\ Has(a, "synced") /\ Has(b, "synced")
  /\ PosIn(writeLog, a) < PosIn(writeLog, b)

ProjectedInOrder(a, b) ==
  /\ PosIn(syncLog, a) < PosIn(syncLog, b)
  /\ LastOn(syncLog, b.id) \in {a.cmdNo, b.cmdNo}
       => mapMongoToPatient(readStore[b.id]) = mapPrismaToPatient(b.prismaPatient)

\* C9 as claimed: two commands on one id whose writes commit W1 then W2 and whose
\* projections both succeed have their projections applied in that order, and when
\* both have finished the read store holds the record written by W2.
C9_ProjectionsFollowCommitOrder ==
  \A p, q \in Procs :
    CommittedInOrder(proc[p], proc[q]) => ProjectedInOrder(proc[p], proc[q])

\* C9 amended: the same, for two commands of which the first had finished when the
\* second started; overlapping commands may project in either order.
C9_SequentialProjectionsFollowCommitOrder ==
  \A p, q \in Procs :
    (CommittedInOrder(proc[p], proc[q]) /\ proc[p].cmdNo \in proc[q].after)
      => ProjectedInOrder(proc[p], proc[q])

C9_Witness ==
  \E p, q \in Procs :
    /\ CommittedInOrder(proc[p], proc[q]) /\ proc[p].cmdNo \in proc[q].after
    /\ proc[p].prismaPatient # proc[q].prismaPatient
    /\ mapMongoToPatient(readStore[proc[q].id]) = mapPrismaToPatient(proc[q].prismaPatient)

CreatedOk(i) ==
  \E p \in Procs :
    /\ proc[p].kind = "create" /\ proc[p].pc = "done"
    /\ proc[p].code = 201 /\ proc[p].id = i

Readable(i) ==
  /\ findById(i) # NoPatient
  /\ findById(i) = mapPrismaToPatient(writeStore[i])

\* C10 as claimed: after a successful createPatient, getPatientById eventually
\* returns a record whose fields equal the canonical row.
C10_CreatedIsEventuallyReadable ==
  \A i \in Ids : CreatedOk(i) ~> Readable(i)

\* C10 amended: after a successful createPatient whose projection upsert
\* succeeded, getPatientById returns the record of the response, until a later
\* projection of that id replaces it.
C10_ProjectedCreateIsReadable ==
  \A p \in Procs :
    LET me == proc[p] IN
    (/\ me.kind = "create" /\ me.pc = "done" /\ me.code = 201
     /\ Has(me, "synced") /\ LastOn(syncLog, me.id) = me.cmdNo)
      => findById(me.id) = me.patient

C10_Witness ==
  \E p \in Procs :
    /\ proc[p].kind = "create" /\ proc[p].pc = "done" /\ proc[p].code = 201
    /\ Has(proc[p], "synced")
    /\ findById(proc[p].id) = proc[p].patient
    /\ findById(proc[p].id).status = "active"

\* every other request had finished when this one started
RanAlone(p) == \A q \in Procs \ {p} : proc[q].cmdNo \in proc[p].after

\* C11: an updatePatient or deletePatient with an acceptable payload, run with no
\* other command in flight, on an id that has no row in the write store, ends with
\* 404 and publishes no event (store outages aside).
C11_MissingRowIsNotFound ==
  \A p \in Procs :
    LET me == proc[p] IN
    (/\ me.kind \in {"update", "delete"} /\ me.pc = "done"
     /\ RanAlone(p)
     /\ writeStore[me.id] = NoRow /\ me.cmdNo \notin CmdsOf(writeLog)
     /\ ~Has(me, "writeFailed") /\ ~Has(me, "invalid") /\ ~Has(me, "conflict"))
      => /\ me.code = 404
         /\ me.cmdNo \notin PublishedCmds

\* C12: the PatientDeleted event of a successful deletePatient, run with no other
\* command in flight, carries as data the record of the row the delete removed.
C12_DeletedEventCarriesCanonicalRow ==
  \A p \in Procs :
    LET me == proc[p] IN
    (me.kind = "delete" /\ me.pc = "done" /\ me.code = 200 /\ RanAlone(p))
      => \A k \in 1 .. Len(channel) :
           channel[k].cmdNo = me.cmdNo
             => /\ channel[k].eventType = "PatientDeleted"
                /\ channel[k].data = mapPrismaToPatient(me.prismaPatient)

LastStep(me) == IF me.trace = << >> THEN "" ELSE me.trace[Len(me.trace)]

\* request p goes through syncToReadDatabase in this step, with this outcome
Syncs(p, outcome) == proc[p].pc = "sync" /\ LastStep(proc'[p]) = outcome

\* C14: the version of a read document never decreases; it grows by exactly 1 in
\* every successful sync of its id (from 0 to 1 when the document is inserted) and
\* no other step, failed syncs, deletes and reads included, changes the read store.
C14_VersionGrowsByOnePerSync ==
  [][/\ \A i \in Ids : readStore'[i].version >= readStore[i].version
     /\ \A p \in Procs :
          Syncs(p, "synced") =>
            LET i == proc[p].prismaPatient.id
            IN /\ readStore'[i].version = readStore[i].version + 1
               /\ \A j \in Ids \ {i} : readStore'[j] = readStore[j]
     /\ (\A p \in Procs : ~Syncs(p, "synced")) => readStore' = readStore]_vars

C14_Witness ==
  \E p \in Procs :
    /\ proc[p].kind = "update" /\ Has(proc[p], "synced")
    /\ readStore[proc[p].id].version = 2

\* C15: every document of the read store carries the id of a row that a create or
\* update committed (or is the projection of the row present from the start), and
\* every projection applied was that of a command whose canonical write is
\* already in the write log.
C15_ProjectionFollowsCanonicalWrite ==
  /\ \A i \in Ids :
       readStore[i] # NoDoc
         => \/ readStore[i] = readData(SeedRow, 0)
            \/ \E k \in 1 .. Len(syncLog) : syncLog[k][1] = readStore[i].id
  /\ \A k \in 1 .. Len(syncLog) : \E j \in 1 .. Len(writeLog) : writeLog[j] = syncLog[k]

C15_Witness ==
  \E p \in Procs :
    /\ proc[p].kind = "create" /\ Has(proc[p], "synced")
    /\ readStore[proc[p].id] # NoDoc
    /\ readStore[proc[p].id].id = proc[p].id
    /\ <<proc[p].id, proc[p].cmdNo>> \in Range(writeLog)

Failures ==
  {"notFound", "invalid", "conflict", "writeFailed", "uniqueViolation", "rowMissing",
   "publishFailed"}

\* the response that follows from validation, write and publication alone
Outcome(me) ==
  CASE Has(me, "notFound") -> 404
    [] Has(me, "conflict") -> 409
    [] Has(me, "invalid") -> 400
    [] Has(me, "writeFailed") \/ Has(me, "uniqueViolation") \/ Has(me, "rowMissing") -> 500
    [] Has(me, "publishFailed") -> 500
    [] OTHER -> SuccessCode(me.kind)

\* C16: a finished mutating command reports success exactly when its validation,
\* its canonical write and its publication all succeeded; otherwise it reports one
\* error, that of the single step that failed; the response is the same whether
\* the projection upsert succeeded or failed.
C16_SuccessIffAllStepsSucceeded ==
  \A p \in Procs :
    LET me == proc[p] IN
    (me.pc = "done" /\ me.kind \notin ReadKinds) =>
      /\ me.code \in {200, 201}
           <=> (Has(me, "validated") /\ Has(me, "written") /\ Has(me, "published"))
      /\ me.code \notin {200, 201}
           => /\ me.code \in {400, 404, 409, 500}
              /\ Cardinality({k \in 1 .. Len(me.trace) : me.trace[k] \in Failures}) = 1
      /\ me.code = Outcome(me)

C16_Witness ==
  \E p, q \in Procs :
    /\ proc[p].pc = "done" /\ proc[q].pc = "done"
    /\ proc[p].kind = "update" /\ proc[q].kind = "update"
    /\ Has(proc[p], "syncFailed") /\ Has(proc[q], "synced")
    /\ proc[p].code = 200 /\ proc[q].code = 200

\* no projection has been applied since this request started
ReadStoreAsAtStart(me) == Len(syncLog) = me.syncsAtStart

CpfTaken(cpf, id) == \E i \in Docs : readStore[i].cpf = cpf /\ readStore[i].id # id

MrnTaken(mrn, id) ==
  \E i \in Docs : readStore[i].medicalRecordNumber = mrn /\ readStore[i].id # id

\* C17 as claimed: a create or update (of an id that is found) whose cpf is
\* structurally invalid ends with the validation error 400, whatever else the
\* payload violates.
C17_CpfStructureIsCheckedFirst ==
  \A p \in Procs :
    LET me == proc[p] IN
    (/\ me.kind \in {"create", "update"} /\ me.pc = "done"
     /\ ~Has(me, "notFound")
     /\ me.data.cpf # NoCpf /\ ~isValidCpf(me.data.cpf))
      => me.code = 400

\* the first check a create payload violates, in the order cpf uniqueness,
\* medicalRecordNumber uniqueness, CPF structure, dates; 0 when it violates none
FirstCreateViolation(data) ==
  IF CpfTaken(data.cpf, 0) THEN 409
  ELSE IF Truthy(data.medicalRecordNumber) /\ MrnTaken(data.medicalRecordNumber, 0) THEN 409
  ELSE IF ~isValidCpf(data.cpf) THEN 400
  ELSE CreateDateError(data)

\* the first check an update payload violates, in the order cpf uniqueness, CPF
\* structure, medicalRecordNumber uniqueness, dates; 0 when it violates none
FirstUpdateViolation(id, data) ==
  IF data.cpf # NoCpf /\ CpfTaken(data.cpf, id) THEN 409
  ELSE IF data.cpf # NoCpf /\ ~isValidCpf(data.cpf) THEN 400
  ELSE IF Truthy(data.medicalRecordNumber) /\ MrnTaken(data.medicalRecordNumber, id) THEN 409
  ELSE UpdateDateError(data)

\* C17 amended: createPatient checks cpf uniqueness, medicalRecordNumber
\* uniqueness, CPF structure, dates, in that order; updatePatient (of an id that is
\* found) checks cpf uniqueness, CPF structure, medicalRecordNumber uniqueness,
\* dates; the error returned is that of the first violated check, and validation
\* passes when none is violated (read store as it was when the request started).
C17_FirstViolatedCheckInCodeOrder ==
  \A p \in Procs :
    LET me == proc[p]
        first == IF me.kind = "create" THEN FirstCreateViolation(me.data)
                 ELSE FirstUpdateViolation(me.id, me.data)
    IN (/\ me.kind \in {"create", "update"} /\ me.pc = "done"
        /\ ~Has(me, "notFound") /\ ReadStoreAsAtStart(me))
         => IF first = 0 THEN Has(me, "validated")
            ELSE me.code = first /\ ~Has(me, "validated")

C17_Witness ==
  \E p \in Procs :
    /\ proc[p].kind = "create" /\ proc[p].pc = "done"
    /\ ReadStoreAsAtStart(proc[p])
    /\ ~isValidCpf(proc[p].data.cpf)
    /\ MrnTaken(proc[p].data.medicalRecordNumber, 0)
    /\ proc[p].code = 409

FutureBirthUpdate(me) ==
  /\ me.kind = "update" /\ me.pc = "done"
  /\ me.data.birthDate # NoDate /\ me.data.birthDate[1] > Now

\* C18 as claimed: an updatePatient with a birthDate in the future ends with the
\* validation error 400, whether or not the id exists.
C18_FutureBirthDateIsValidationError ==
  \A p \in Procs : FutureBirthUpdate(proc[p]) => proc[p].code = 400

\* C18 amended: an updatePatient with a birthDate in the future never reaches the
\* write store, the projection or the publisher; it first looks the id up in the
\* read store and ends with 404 when no document is found, and otherwise with the
\* error of validation (400, or 409 when a uniqueness check fails first).
C18_FutureBirthDateNeverWrites ==
  \A p \in Procs :
    LET me == proc[p] IN
    FutureBirthUpdate(me)
      => /\ NoSideEffect(me)
         /\ IF Has(me, "notFound")
            THEN me.code = 404 /\ me.existingPatient = NoPatient
            ELSE me.code \in {400, 409} /\ me.existingPatient # NoPatient

C18_Witness ==
  \E p, q \in Procs :
    /\ FutureBirthUpdate(proc[p]) /\ FutureBirthUpdate(proc[q])
    /\ proc[p].code = 400 /\ proc[p].existingPatient # NoPatient
    /\ proc[q].code = 404

\* request p commits the canonical write of an updatePatient in this step
UpdateCommits(p) ==
  proc[p].kind = "update" /\ proc[p].pc = "write" /\ LastStep(proc'[p]) = "written"

\* C19: the canonical write of an updatePatient changes no field of the row that
\* is absent from the payload, never its id or its status fields, and no other
\* row; with an empty payload the row stays as it was.
C19_UpdateKeepsAbsentFields ==
  [][\A p \in Procs :
       UpdateCommits(p) =>
         LET data == proc[p].data
             old == writeStore[proc[p].id]
             new == writeStore'[proc[p].id]
         IN /\ data.cpf = NoCpf => new.cpf = old.cpf
            /\ data.medicalRecordNumber = Undefined
                 => new.medicalRecordNumber = old.medicalRecordNumber
            /\ data.roomNumber = Undefined => new.roomNumber = old.roomNumber
            /\ data.birthDate = NoDate => new.birthDate = old.birthDate
            /\ new.id = old.id /\ new.status = old.status
            /\ new.validationStatus = old.validationStatus
            /\ data = NoData => new = old
            /\ \A i \in Ids \ {proc[p].id} : writeStore'[i] = writeStore[i]]_vars

C19_Witness ==
  \E p, q \in Procs :
    /\ proc[p].kind = "update" /\ Has(proc[p], "written")
    /\ proc[p].data.roomNumber = "R2" /\ proc[p].data.cpf = NoCpf
    /\ proc[p].prismaPatient.roomNumber = "R2" /\ proc[p].prismaPatient.cpf = CpfA
    /\ proc[q].kind = "update" /\ Has(proc[q], "written")
    /\ proc[q].data = NoData /\ proc[q].cmdNo \in proc[p].after
    /\ proc[q].prismaPatient = SeedRow

\* C20: after a successful validatePatient, run with no other command in flight,
\* the canonical row and the record returned carry the requested validation status.
C20_ValidateSetsValidationStatus ==
  \A p \in Procs :
    LET me == proc[p] IN
    (/\ me.kind = "validate" /\ me.pc = "done" /\ me.code = 200
     /\ started = me.cmdNo /\ \A q \in Procs \ {p} : proc[q].pc \in {"idle", "done"})
      => /\ writeStore[me.id].validationStatus \in {ValidationRequested, "VALIDATED"}
         /\ me.patient.validationStatus = ValidationRequested

(* ------------------------------------------------------------ C21..C30 *)
\* the stores and the transport answered every call of the command
NoOutage(me) ==
  /\ ~Has(me, "writeFailed") /\ ~Has(me, "publishFailed")
  /\ Has(me, "syncFailed") => Has(me, "duplicateKey")

\* C21: the medicalRecordNumber uniqueness rule applies only when the field is
\* supplied: a createPatient with a valid cpf no patient holds and no
\* medicalRecordNumber, issued after another patient was created without one,
\* succeeds and its patient gets a read projection (every store call answering).
C21_CreateWithoutRecordNumberIsProjected ==
  \A p \in Procs :
    LET me == proc[p] IN
    (/\ me.kind = "create" /\ me.pc = "done"
     /\ ~Truthy(me.data.medicalRecordNumber)
     /\ ~MalformedCreate(me.data) /\ Has(me, "validated")
     /\ ~Has(me, "uniqueViolation")
     /\ NoOutage(me))
      => /\ me.code = 201
         /\ readStore[me.id] # NoDoc

\* a different patient's canonical row holds the cpf or the medicalRecordNumber
\* of the payload
HeldByOther(id, data) ==
  \E j \in Ids \ {id} :
    /\ writeStore[j] # NoRow
    /\ \/ data.cpf # NoCpf /\ writeStore[j].cpf = data.cpf
       \/ Truthy(data.medicalRecordNumber)
            /\ writeStore[j].medicalRecordNumber = data.medicalRecordNumber

\* the payload repeats the cpf or the medicalRecordNumber the patient has
RepeatsOwn(me) ==
  /\ me.existingPatient # NoPatient
  /\ \/ me.data.cpf = me.existingPatient.cpf
     \/ me.data.medicalRecordNumber = me.existingPatient.medicalRecordNumber

\* C22: an updatePatient whose payload repeats the patient's own cpf or
\* medicalRecordNumber does not fail with ConflictError; one whose payload carries
\* a cpf or medicalRecordNumber held by a different patient fails with
\* ConflictError (409) and writes nothing (no other command in flight, the
\* write store answering).
C22_UpdateConflictExcludesOwnId ==
  \A p \in Procs :
    LET me == proc[p] IN
    (/\ me.kind = "update" /\ me.pc = "done"
     /\ ~Has(me, "notFound") /\ ~Has(me, "writeFailed")
     /\ \A q \in Procs \ {p} : proc[q].cmdNo \in me.after)
      => /\ (RepeatsOwn(me) /\ ~HeldByOther(me.id, me.data)) => me.code # 409
         /\ HeldByOther(me.id, me.data)
              => /\ me.code = 409
                 /\ me.cmdNo \notin CmdsOf(writeLog)

\* C23: every step of getPatientById, getPatientByCpf, getPatientByMedicalRecord
\* and searchPatients leaves the write store, the read store and the published
\* events as they were, and a lookup by id answers from the read store alone:
\* 200 exactly when the read store holds a document of the id.
C23_ReadsChangeNothing ==
  [][\A p \in Procs :
       (proc'[p] # proc[p] /\ (proc[p].kind \in ReadKinds \/ proc'[p].kind \in ReadKinds))
         => /\ writeStore' = writeStore /\ nextId' = nextId /\ writeLog' = writeLog
            /\ readStore' = readStore /\ syncLog' = syncLog
            /\ channel' = channel
            /\ (proc[p].pc = "read" /\ proc[p].kind = "getById")
                 => (proc'[p].code = 200 <=> readStore[proc[p].id] # NoDoc)]_vars

\* a lookup by id has answered 404 for a patient whose canonical row exists
C23_Witness ==
  \E p \in Procs :
    /\ proc[p].kind = "getById" /\ proc[p].pc = "done" /\ proc[p].code = 404
    /\ writeStore[proc[p].id] # NoRow

\* the publication attempts a request has made
PublishAttempts(me) ==
  {k \in 1 .. Len(me.trace) : me.trace[k] \in {"published", "publishFailed"}}

\* C24: a command attempts to publish at most once: the attempt, sent or failed,
\* ends the command, and the channel never holds more than one envelope of the
\* same command.
C24_AtMostOnePublication ==
  /\ \A p \in Procs :
       /\ Cardinality(PublishAttempts(proc[p])) <= 1
       /\ PublishAttempts(proc[p]) # {} => proc[p].pc = "done"
  /\ \A c \in 1 .. MaxCommands :
       Cardinality({k \in 1 .. Len(channel) : channel[k].cmdNo = c}) <= 1

\* one command's envelope is on the channel and another command's only attempt
\* has failed
C24_Witness ==
  \E p \in Procs :
    /\ proc[p].pc = "done" /\ Has(proc[p], "publishFailed")
    /\ Len(channel) = 1 /\ channel[1].cmdNo # proc[p].cmdNo

\* C25: the publisher's mode is fixed when it is constructed and never changes;
\* in test mode connect creates no sender, publishEvent puts nothing on the
\* channel and no publication fails.
C25_TestModeIsFixedAndSilent ==
  [][/\ isTestMode' = isTestMode
     /\ isTestMode' =>
          /\ senders' = {}
          /\ channel' = << >>
          /\ \A p \in Procs : ~Has(proc'[p], "publishFailed")]_vars

\* in test mode, once the service listens, a command has published and finished
C25_Witness ==
  /\ isTestMode /\ listening
  /\ \E p \in Procs : proc[p].pc = "done" /\ Has(proc[p], "published")

\* the queue that belongs to an event type
ChannelOf(eventType) ==
  CASE eventType = "PatientCreated" -> "patient.created"
    [] eventType = "PatientUpdated" -> "patient.updated"
    [] eventType = "PatientDeleted" -> "patient.deleted"
    [] eventType = "PatientValidated" -> "patient.validated"

\* the event type a command publishes
EventOf(kind) ==
  CASE kind = "create" -> "PatientCreated"
    [] kind = "update" -> "PatientUpdated"
    [] kind = "delete" -> "PatientDeleted"
    [] kind = "validate" -> "PatientValidated"

\* C26: every envelope on the channel is on the queue of its own event type, the
\* event type is that of the command that published it, and its patientId and
\* its correlation id are both the id of the patient the command wrote.
C26_EnvelopeRouting ==
  \A k \in 1 .. Len(channel) :
    LET m == channel[k] IN
    /\ m.queue = ChannelOf(m.eventType)
    /\ m.correlationId = m.patientId
    /\ <<m.patientId, m.cmdNo>> \in Range(writeLog)
    /\ \A p \in Procs : proc[p].cmdNo = m.cmdNo => m.eventType = EventOf(proc[p].kind)

\* two envelopes of different event types, for different patients, are on the
\* channel
C26_Witness ==
  /\ Len(channel) = 2
  /\ channel[1].eventType # channel[2].eventType
  /\ channel[1].patientId # channel[2].patientId

\* C27: the step that commits the row of a createPatient stores it with status
\* active and validationStatus pending, whatever the payload carries.
C27_CreatedRowIsActivePending ==
  [][\A p \in Procs :
       (proc[p].kind = "create" /\ proc[p].pc = "write" /\ Has(proc'[p], "written"))
         => LET row == writeStore'[proc'[p].id] IN
            /\ writeStore[row.id] = NoRow
            /\ toLowerCase(row.status) = "active"
            /\ toLowerCase(row.validationStatus) = "pending"]_vars

\* a createPatient whose payload carries a status of its own has committed its row
C27_Witness ==
  \E p \in Procs :
    /\ proc[p].kind = "create" /\ Has(proc[p], "written")
    /\ Truthy(proc[p].data.status)
    /\ writeStore[proc[p].id].cpf = proc[p].data.cpf

\* C28: a search caps the page size at 100: with the effective limit
\* min(limit, 100), at most that many items are returned, and the limit,
\* totalPages and hasNext of the response are those of the effective limit.
C28_PageSizeIsCapped ==
  (call.fn = "findMany" /\ call.evaluated) =>
    LET requested == IF call.limit = 0 THEN 10 ELSE call.limit
        effective == Min(requested, MaxPageSize)
        r == call.result
    IN /\ Len(r.returned) <= effective
       /\ r.limit = effective
       /\ r.totalPages = Ceil(call.total, effective)
       /\ r.hasNext = (r.page < Ceil(call.total, effective))

RECURSIVE SumOver(_, _)
SumOver(f, S) ==
  IF S = {} THEN 0
  ELSE LET i == CHOOSE j \in S : TRUE IN f[i] + SumOver(f, S \ {i})

\* the remainder of the weighted-sum mod-11 rule for check digit n + 1: the
\* first n digits weighted n + 1 down to 2
Remainder(cpf, n) == (10 * SumOver([i \in 1 .. n |-> cpf[i] * (n + 2 - i)], 1 .. n)) % 11

ExpectedDigit(cpf, n) ==
  IF Remainder(cpf, n) \in {10, 11} THEN 0 ELSE Remainder(cpf, n)

\* C29: isValidCpf accepts an 11-digit string exactly when its tenth and eleventh
\* digits are the check digits of the weighted-sum mod-11 rule (a remainder of 10
\* or 11 counting as 0) and its digits are not all the same.
C29_IsValidCpfIsTheCheckDigitRule ==
  (call.fn = "isValidCpf" /\ call.evaluated) =>
    (call.valid <=>
       /\ call.cpf[10] = ExpectedDigit(call.cpf, 9)
       /\ call.cpf[11] = ExpectedDigit(call.cpf, 10)
       /\ \E i \in 2 .. 11 : call.cpf[i] # call.cpf[1])

\* an accepted string whose first remainder is 10, so that its tenth digit is 0
C29_Witness ==
  /\ call.fn = "isValidCpf" /\ call.evaluated /\ call.valid
  /\ Remainder(call.cpf, 9) = 10

\* C30: a command that has started its canonical write eventually finishes, with
\* success or with an error, provided every store and transport call returns.
C30_StartedWriteFinishes ==
  \A p \in Procs :
    (proc[p].pc \in {"write", "sync", "publish"})
      ~> (proc[p].pc = "done" /\ proc[p].code \in {200, 201, 500})

\* a command whose write committed and whose projection failed has finished with
\* success
C30_Witness ==
  \E p \in Procs :
    /\ proc[p].pc = "done" /\ proc[p].code \in {200, 201}
    /\ proc[p].trace = <<"validated", "written", "syncFailed", "published">>

(* ------------------------------------------------------------ C31..C39 *)
\* C31: an updatePatient, deletePatient or validatePatient on an id whose
\* canonical row exists, started when every other command had finished, does not
\* fail with NotFoundError (404), also when the read store has no document of
\* the id.
C31_ExistingRowIsNeverNotFound ==
  \A p \in Procs :
    LET me == proc[p] IN
    (/\ me.kind \in {"update", "delete", "validate"} /\ me.pc = "done"
     /\ \A q \in Procs \ {p} : proc[q].cmdNo \in me.after
     /\ me.id \in Ids /\ writeStore[me.id] # NoRow)
      => (me.code # 404 /\ ~Has(me, "notFound"))

\* C32: after a deletePatient has succeeded, a createPatient with the deleted
\* patient's cpf, acceptable data and no medicalRecordNumber, started when every
\* other command had finished and no canonical row holds the cpf, is accepted:
\* it ends with 201 (store and transport outages aside).
C32_CpfOfDeletedPatientIsFree ==
  \A p \in Procs :
    LET me == proc[p] IN
    (/\ me.kind = "create" /\ me.pc = "done"
     /\ ~MalformedCreate(me.data) /\ ~Truthy(me.data.medicalRecordNumber)
     /\ \E q \in Procs \ {p} :
          /\ proc[q].kind = "delete" /\ proc[q].pc = "done" /\ proc[q].code = 200
          /\ proc[q].existingPatient.cpf = me.data.cpf
          /\ proc[q].cmdNo \in me.after
     /\ me.heldBy = 0
     /\ ~Has(me, "writeFailed") /\ ~Has(me, "publishFailed"))
      => me.code = 201

\* C33: the PatientUpdated envelope a command puts on the channel has oldData
\* equal to the canonical row immediately before the command's own write and
\* newData equal to the canonical row that write produced.
C33_UpdatedEventBracketsTheWrite ==
  [][\A p \in Procs :
       (/\ proc[p].kind = "update" /\ proc[p].pc = "publish"
        /\ Len(channel') = Len(channel) + 1 /\ proc'[p].pc = "done")
         => LET m == channel'[Len(channel')] IN
            /\ m.eventType = "PatientUpdated"
            /\ m.newData = mapPrismaToPatient(proc[p].prismaPatient)
            /\ m.oldData = mapPrismaToPatient(proc[p].rowBeforeWrite)]_vars

\* this request is the latest command, every other one had finished when it
\* started, and no upsert of those still on record failed
OneAtATime(p) ==
  /\ started = proc[p].cmdNo
  /\ \A q \in Procs \ {p} : proc[q].cmdNo \in proc[p].after /\ ~Has(proc[q], "syncFailed")

CpfNumber(cpf) == SelectSeq(cpf, IsDigit)

\* C35: no two rows of the write store hold the same CPF number, whatever the
\* punctuation of the strings: a createPatient whose cpf has the digits of an
\* existing patient's cpf never commits a second row.
C35_OneRowPerCpfNumber ==
  \A i, j \in Ids :
    (i # j /\ writeStore[i] # NoRow /\ writeStore[j] # NoRow)
      => CpfNumber(writeStore[i].cpf) # CpfNumber(writeStore[j].cpf)

\* C36: after a successful updatePatient the row its write produced holds, for
\* every updatable field the payload supplies, the supplied value, a supplied
\* empty roomNumber and a supplied status included.
C36_SuppliedFieldsAreApplied ==
  \A p \in Procs :
    LET me == proc[p]
        row == me.prismaPatient
    IN (me.kind = "update" /\ me.pc = "done" /\ me.code = 200) =>
         /\ me.data.cpf # NoCpf => row.cpf = me.data.cpf
         /\ me.data.medicalRecordNumber # Undefined
              => row.medicalRecordNumber = me.data.medicalRecordNumber
         /\ me.data.birthDate # NoDate => row.birthDate = me.data.birthDate
         /\ me.data.roomNumber # Undefined => row.roomNumber = me.data.roomNumber
         /\ me.data.status # Undefined => row.status = me.data.status

\* C37: in live mode a publication succeeds only on a queue whose sender connect has
\* made; without that sender (the event bus was disabled at startup) the publication
\* fails and sends nothing, and the command, whose canonical write is committed,
\* answers with an error
C37_PublishNeedsASender ==
  [][\A p \in Procs :
       (proc[p].pc = "publish" /\ proc'[p] # proc[p] /\ ~isTestMode) =>
         /\ Has(proc'[p], "published") => QueueOf(proc[p].kind) \in senders
         /\ QueueOf(proc[p].kind) \notin senders =>
              /\ channel' = channel
              /\ Has(proc'[p], "publishFailed")
              /\ proc'[p].pc = "done" /\ proc'[p].code = 500
              /\ proc[p].cmdNo \in CmdsOf(writeLog)
              /\ writeStore' = writeStore]_vars

C37_Witness ==
  /\ ~isTestMode /\ listening /\ senders = {} /\ channel = << >>
  /\ \E p \in Procs :
       /\ proc[p].pc = "done" /\ proc[p].kind = "create" /\ proc[p].code = 500
       /\ Has(proc[p], "written") /\ Has(proc[p], "publishFailed")
       /\ writeStore[proc[p].id] # NoRow

\* the records on page n of a search with this limit over these records
PageOf(sorted, limit, n) == Range(findMany(sorted, n, limit).returned)

\* C38: for any result set and any limit of at least 1, pages 1 to totalPages of a
\* search with the same filters and limit return every matching record exactly
\* once, none skipped and none repeated, also when the limit exceeds 100
C38_PagesCoverEveryRecordOnce ==
  (call.fn = "findMany" /\ call.evaluated /\ call.limit >= 1) =>
    LET sorted == [i \in 1 .. call.total |-> i]
        pages == [n \in 1 .. call.result.totalPages |-> PageOf(sorted, call.limit, n)]
    IN /\ UNION {pages[n] : n \in DOMAIN pages} = Range(sorted)
       /\ \A m, n \in DOMAIN pages : m < n => pages[m] \cap pages[n] = {}
       /\ call.page \in DOMAIN pages => Range(call.result.returned) = pages[call.page]

\* C39: the service listens, and so takes requests, only after the database
\* connections (unless skipped) and the event-bus initialisation (when enabled) have
\* completed; when either fails the process exits and never listens
C39_ListensOnlyAfterStartupSucceeded ==
  [][/\ listening' => (boot'.pc = "listening" /\ boot'.databases /\ boot'.eventBus)
     /\ (listening' /\ ~listening) => (boot.pc = "listen" /\ boot.databases /\ boot.eventBus)
     /\ \A p \in Procs : proc'[p].pc # "idle" => listening'
     /\ boot'.pc = "exited" => ~listening'
     /\ boot.pc = "exited" => boot' = boot]_vars

\* after both initialisations the service listens and has taken a request
C39_Witness ==
  /\ listening /\ boot.databases /\ boot.eventBus /\ senders = Queues
  /\ \E p \in Procs : proc[p].pc # "idle"

====
